---- MODULE Spec2Model ----
(***************************************************************************)
(* The notebooks web service of IPython/html/services/notebooks/handlers.py *)
(* as a state machine: one action per Tornado handler method.  The notebook *)
(* manager (self.notebook_manager) is the document store the handlers call. *)
(***************************************************************************)
EXTENDS Integers, Sequences, FiniteSets, TLC

\* notebooks, checkpoints, now: the store behind self.notebook_manager.
\* req, resp: the last request a handler served and its response.
\* before: the store as that handler found it.
\* deleted: the (path, name) a DELETE removed and no later request brought back.
\* pending: a put that has made its existence check and not yet its store call.
\* tracked: the notebook and checkpoint of a checkpoint / save / restore sequence.
VARIABLES notebooks, checkpoints, now, req, resp, before, deleted, pending, tracked

vars == <<notebooks, checkpoints, now, req, resp, before, deleted, pending, tracked>>

\* ------------------------------------------------------------------ bounds
\* Number of timestamps the store's clock hands out.
MaxClock == 2
\* Number of names increment_filename can choose from in one directory.
MaxUntitled == 1
\* Number of checkpoint ids the store can assign to one notebook.
MaxCheckpoints == 1

\* ------------------------------------------------------------- Python values
\* None for a name, a path, a content, a checkpoint id; "" for ?copy=.
NoName == "None"
NoPath == <<"None">>
NoContent == "None"
NoId == "None"
NoCopy == ""
\* A header that was never set.
NoLocation == <<>>
NoHeader == -1

\* The parsed JSON body: None, or a dict with optional name, path, content.
NoneBody == [none |-> TRUE, name |-> NoName, path |-> NoPath, content |-> NoContent]
Dict(n, p, c) == [none |-> FALSE, name |-> n, path |-> p, content |-> c]
EmptyDict == Dict(NoName, NoPath, NoContent)

\* Python truth value of a parsed body: None and {} are false.
Truthy(model) ==
    /\ ~model.none
    /\ model.name # NoName \/ model.path # NoPath \/ model.content # NoContent

\* --------------------------------------------------------------- the inputs
Names == {"a.ipynb", "b.ipynb"}
ServerNames == {"Untitled" \o ToString(i) \o ".ipynb" : i \in 0..(MaxUntitled - 1)}
\* path as matched by _path_regex: "" or "/w", one token per character.
ReqPaths == {<<>>, <<"/", "w">>}
\* name as matched by the two NotebookHandler routes: a file name, or None.
ReqNames == Names \cup {NoName}
Copies == {NoCopy, "a.ipynb"}
Bodies == {NoneBody, EmptyDict, Dict(NoName, NoPath, "c1"),
           Dict("b.ipynb", NoPath, "c1"), Dict(NoName, <<"w">>, NoContent)}
CheckpointIds == {"cp" \o ToString(i) : i \in 0..(MaxCheckpoints - 1)}
ReqIds == CheckpointIds \cup {"zz"}

\* ------------------------------------------------------------ str.strip('/')
RECURSIVE LStrip(_)
LStrip(p) == IF p # <<>> /\ Head(p) = "/" THEN LStrip(Tail(p)) ELSE p

RECURSIVE RStrip(_)
RStrip(p) == IF p # <<>> /\ p[Len(p)] = "/" THEN RStrip(SubSeq(p, 1, Len(p) - 1)) ELSE p

Strip(p) == RStrip(LStrip(p))

\* url_path_join: the non-empty pieces, stripped of slashes, in order.
url_path_join(pieces) ==
    LET RECURSIVE Join(_)
        Join(ps) == IF ps = <<>> THEN <<>> ELSE Strip(Head(ps)) \o Join(Tail(ps))
    IN Join(pieces)

\* ----------------------------------------------------------------- the store
\* A notebook on the store; the model the store returns has the same fields.
NoModel == [name |-> NoName, path |-> NoPath, content |-> NoContent, last_modified |-> NoHeader]
NoCheckpoint == [id |-> NoId, last_modified |-> NoHeader]
EmptyContent == "empty"
\* The status of a failure the store reports that is not NotFound.
StoreFailure == 500

Store == [notebooks |-> notebooks, checkpoints |-> checkpoints, now |-> now]

Find(S, name, path) == {d \in S.notebooks : d.name = name /\ d.path = Strip(path)}

CheckpointsOf(S, name, path) ==
    {c \in S.checkpoints : c.name = name /\ c.path = Strip(path)}

StoreOk(model, S) == [ok |-> TRUE, status |-> 0, model |-> model, checkpoint |-> NoCheckpoint, S |-> S]
StoreError(status, S) == [ok |-> FALSE, status |-> status, model |-> NoModel, checkpoint |-> NoCheckpoint, S |-> S]

notebook_exists(S, name, path) == Find(S, name, path) # {}

\* The first Untitled<i>.ipynb that is free in path.
FreeNames(S, path) == {i \in 0..(MaxUntitled - 1) :
    ~notebook_exists(S, "Untitled" \o ToString(i) \o ".ipynb", path)}
increment_filename(S, path) ==
    LET i == CHOOSE k \in FreeNames(S, path) : \A j \in FreeNames(S, path) : k <= j
    IN "Untitled" \o ToString(i) \o ".ipynb"

get_notebook_model(S, name, path) ==
    IF notebook_exists(S, name, path)
    THEN StoreOk(CHOOSE d \in Find(S, name, path) : TRUE, S)
    ELSE StoreError(404, S)

\* Moves a notebook and its checkpoints to (new_path, new_name).
rename_notebook(S, name, path, new_name, new_path) ==
    LET old == CHOOSE d \in Find(S, name, path) : TRUE
        moved == [old EXCEPT !.name = new_name, !.path = new_path]
        cps == CheckpointsOf(S, name, path)
    IN [S EXCEPT !.notebooks = (@ \ {old}) \cup {moved},
                 !.checkpoints = (@ \ cps) \cup
                     {[c EXCEPT !.name = new_name, !.path = new_path] : c \in cps},
                 !.now = @ + 1]

update_notebook_model(S, model, name, path) ==
    LET new_name == IF model.name # NoName THEN model.name ELSE name
        new_path == IF model.path # NoPath THEN Strip(model.path) ELSE Strip(path)
        renamed == new_name # name \/ new_path # Strip(path)
    IN IF ~notebook_exists(S, name, path) THEN StoreError(404, S)
       ELSE IF ~renamed THEN get_notebook_model(S, name, path)
       ELSE IF notebook_exists(S, new_name, new_path) THEN StoreError(StoreFailure, S)
       ELSE LET S2 == rename_notebook(S, name, path, new_name, new_path)
            IN get_notebook_model(S2, new_name, new_path)

\* Writes the notebook (path, name), replacing the one that is there.
WriteNotebook(S, name, path, content) ==
    LET doc == [name |-> name, path |-> Strip(path), content |-> content,
                last_modified |-> S.now]
    IN [S EXCEPT !.notebooks = (@ \ Find(S, name, path)) \cup {doc},
                 !.now = @ + 1]

save_notebook_model(S, model, name, path) ==
    LET new_name == IF model.name # NoName THEN model.name ELSE name
        new_path == IF model.path # NoPath THEN Strip(model.path) ELSE Strip(path)
        renamed == new_name # name \/ new_path # Strip(path)
        old == CHOOSE d \in Find(S, name, path) : TRUE
        content == IF model.content # NoContent THEN model.content ELSE old.content
    IN IF ~notebook_exists(S, name, path) THEN StoreError(404, S)
       ELSE IF renamed /\ notebook_exists(S, new_name, new_path)
            THEN StoreError(StoreFailure, S)
       ELSE LET S2 == IF renamed THEN rename_notebook(S, name, path, new_name, new_path)
                      ELSE S
                S3 == WriteNotebook(S2, new_name, new_path, content)
            IN get_notebook_model(S3, new_name, new_path)

create_notebook_model(S, model, path) ==
    LET name == IF model.name # NoName THEN model.name ELSE increment_filename(S, path)
        content == IF model.content # NoContent THEN model.content ELSE EmptyContent
        S2 == WriteNotebook(S, name, path, content)
    IN get_notebook_model(S2, name, path)

copy_notebook(S, from_name, to_name, path) ==
    LET src == CHOOSE d \in Find(S, from_name, path) : TRUE
        name == IF to_name # NoName THEN to_name ELSE increment_filename(S, path)
    IN IF ~notebook_exists(S, from_name, path) THEN StoreError(404, S)
       ELSE LET S2 == WriteNotebook(S, name, path, src.content)
            IN get_notebook_model(S2, name, path)

delete_notebook_model(S, name, path) ==
    IF ~notebook_exists(S, name, path) THEN StoreError(404, S)
    ELSE StoreOk(NoModel, [S EXCEPT !.notebooks = @ \ Find(S, name, path),
                                    !.checkpoints = @ \ CheckpointsOf(S, name, path),
                                    !.now = @ + 1])

FreeIds(S, name, path) == {i \in 0..(MaxCheckpoints - 1) :
    \A c \in CheckpointsOf(S, name, path) : c.id # "cp" \o ToString(i)}

create_checkpoint(S, name, path) ==
    LET doc == CHOOSE d \in Find(S, name, path) : TRUE
        i == CHOOSE k \in FreeIds(S, name, path) : \A j \in FreeIds(S, name, path) : k <= j
        cp == [name |-> name, path |-> Strip(path), id |-> "cp" \o ToString(i),
               content |-> doc.content, last_modified |-> S.now]
    IN IF ~notebook_exists(S, name, path) THEN StoreError(404, S)
       ELSE [ok |-> TRUE, status |-> 0, model |-> NoModel,
             checkpoint |-> [id |-> cp.id, last_modified |-> cp.last_modified],
             S |-> [S EXCEPT !.checkpoints = @ \cup {cp}, !.now = @ + 1]]

restore_checkpoint(S, checkpoint_id, name, path) ==
    LET cps == {c \in CheckpointsOf(S, name, path) : c.id = checkpoint_id}
        cp == CHOOSE c \in cps : TRUE
    IN IF ~notebook_exists(S, name, path) \/ cps = {} THEN StoreError(404, S)
       ELSE StoreOk(NoModel, WriteNotebook(S, name, path, cp.content))

delete_checkpoint(S, checkpoint_id, name, path) ==
    LET cps == {c \in CheckpointsOf(S, name, path) : c.id = checkpoint_id}
    IN IF ~notebook_exists(S, name, path) \/ cps = {} THEN StoreError(404, S)
       ELSE StoreOk(NoModel, [S EXCEPT !.checkpoints = @ \ cps, !.now = @ + 1])

\* ------------------------------------------------------- the handlers' steps
\* One call of a notebook manager method, as the handler made it.
Call(op, name, path, model, aux, ok) ==
    [op |-> op, name |-> name, path |-> path, model |-> model, aux |-> aux, ok |-> ok]

\* What a handler leaves behind: the response, the calls it made, the store.
Response(status, location, last_modified, body, checkpoint, calls, S) ==
    [status |-> status, location |-> location, last_modified |-> last_modified,
     body |-> body, checkpoint |-> checkpoint, calls |-> calls, S |-> S]

\* raise web.HTTPError(status), also from inside the store: an error response.
HTTPError(status, calls, S) ==
    Response(status, NoLocation, NoHeader, NoModel, NoCheckpoint, calls, S)

notebook_location(name, path) ==
    url_path_join(<<<<"api">>, <<"notebooks">>, path, <<name>>>>)

\* _finish_model with the Last-Modified header set inside the `if location`.
_finish_model_lm_in_if(status, model, location, calls, S) ==
    Response(status,
             IF location THEN notebook_location(model.name, model.path) ELSE NoLocation,
             IF location THEN model.last_modified ELSE NoHeader,
             model, NoCheckpoint, calls, S)

_finish_model(status, model, location, calls, S) ==
    Response(status,
             IF location THEN notebook_location(model.name, model.path) ELSE NoLocation,
             model.last_modified, model, NoCheckpoint, calls, S)

\* get that finishes the model with the default location=True.
get_with_location(S, path, name) ==
    IF name = NoName
    THEN Response(200, NoLocation, NoHeader, NoModel, NoCheckpoint,
                  <<Call("list_notebooks", NoName, path, NoneBody, NoName, TRUE)>>, S)
    ELSE LET r == get_notebook_model(S, name, path)
             calls == <<Call("get_notebook_model", name, path, NoneBody, NoName, r.ok)>>
         IN IF r.ok THEN _finish_model(200, r.model, TRUE, calls, r.S)
            ELSE HTTPError(r.status, calls, r.S)

\* get that asks the store for the name without the path.
get_ignores_path(S, path, name) ==
    IF name = NoName
    THEN Response(200, NoLocation, NoHeader, NoModel, NoCheckpoint,
                  <<Call("list_notebooks", NoName, path, NoneBody, NoName, TRUE)>>, S)
    ELSE LET r == get_notebook_model(S, name, <<>>)
             calls == <<Call("get_notebook_model", name, <<>>, NoneBody, NoName, r.ok)>>
         IN IF r.ok THEN _finish_model(200, r.model, FALSE, calls, r.S)
            ELSE HTTPError(r.status, calls, r.S)

get(S, path, name) ==
    IF name = NoName
    THEN Response(200, NoLocation, NoHeader, NoModel, NoCheckpoint,
                  <<Call("list_notebooks", NoName, path, NoneBody, NoName, TRUE)>>, S)
    ELSE LET r == get_notebook_model(S, name, path)
             calls == <<Call("get_notebook_model", name, path, NoneBody, NoName, r.ok)>>
         IN IF r.ok THEN _finish_model(200, r.model, FALSE, calls, r.S)
            ELSE HTTPError(r.status, calls, r.S)

\* patch that tests the body with `if not model`, so that {} counts as missing.
patch_falsy_body(S, path, name, model) ==
    IF name = NoName THEN HTTPError(400, <<>>, S)
    ELSE IF ~Truthy(model) THEN HTTPError(400, <<>>, S)
    ELSE LET r == update_notebook_model(S, model, name, path)
             calls == <<Call("update_notebook_model", name, path, model, NoName, r.ok)>>
         IN IF r.ok THEN _finish_model(200, r.model, TRUE, calls, r.S)
            ELSE HTTPError(r.status, calls, r.S)

\* patch that builds the Location from the request's path and name.
patch_request_location(S, path, name, model) ==
    IF name = NoName THEN HTTPError(400, <<>>, S)
    ELSE IF model.none THEN HTTPError(400, <<>>, S)
    ELSE LET r == update_notebook_model(S, model, name, path)
             calls == <<Call("update_notebook_model", name, path, model, NoName, r.ok)>>
         IN IF r.ok THEN Response(200, notebook_location(name, path), r.model.last_modified,
                                  r.model, NoCheckpoint, calls, r.S)
            ELSE HTTPError(r.status, calls, r.S)

patch(S, path, name, model) ==
    IF name = NoName THEN HTTPError(400, <<>>, S)
    ELSE IF model.none THEN HTTPError(400, <<>>, S)
    ELSE LET r == update_notebook_model(S, model, name, path)
             calls == <<Call("update_notebook_model", name, path, model, NoName, r.ok)>>
         IN IF r.ok THEN _finish_model(200, r.model, TRUE, calls, r.S)
            ELSE HTTPError(r.status, calls, r.S)

\* _copy_notebook that hands copy_to and copy_from to the store in the wrong order.
_copy_notebook_swapped(S, copy_from, path, copy_to) ==
    LET r == copy_notebook(S, copy_to, copy_from, path)
        calls == <<Call("copy_notebook", copy_to, path, NoneBody, copy_from, r.ok)>>
    IN IF r.ok THEN _finish_model(201, r.model, TRUE, calls, r.S)
       ELSE HTTPError(r.status, calls, r.S)

_copy_notebook(S, copy_from, path, copy_to) ==
    LET r == copy_notebook(S, copy_from, copy_to, path)
        calls == <<Call("copy_notebook", copy_from, path, NoneBody, copy_to, r.ok)>>
    IN IF r.ok THEN _finish_model(201, r.model, TRUE, calls, r.S)
       ELSE HTTPError(r.status, calls, r.S)

\* _upload_notebook that keeps a name the body already has (setdefault).
_upload_notebook_keeps_body_name(S, model, path, name) ==
    LET named == IF name # NoName /\ model.name = NoName
                 THEN [model EXCEPT !.name = name] ELSE model
        r == create_notebook_model(S, named, path)
        calls == <<Call("create_notebook_model", NoName, path, named, NoName, r.ok)>>
    IN IF r.ok THEN _finish_model(201, r.model, TRUE, calls, r.S)
       ELSE HTTPError(r.status, calls, r.S)

_upload_notebook(S, model, path, name) ==
    LET named == IF name # NoName THEN [model EXCEPT !.name = name] ELSE model
        r == create_notebook_model(S, named, path)
        calls == <<Call("create_notebook_model", NoName, path, named, NoName, r.ok)>>
    IN IF r.ok THEN _finish_model(201, r.model, TRUE, calls, r.S)
       ELSE HTTPError(r.status, calls, r.S)

\* _create_empty_notebook that never puts the name into the model.
_create_empty_notebook_unnamed(S, path, name) ==
    LET model == EmptyDict
        r == create_notebook_model(S, model, path)
        calls == <<Call("create_notebook_model", NoName, path, model, NoName, r.ok)>>
    IN IF r.ok THEN _finish_model(201, r.model, TRUE, calls, r.S)
       ELSE HTTPError(r.status, calls, r.S)

_create_empty_notebook(S, path, name) ==
    LET model == IF name # NoName THEN [EmptyDict EXCEPT !.name = name] ELSE EmptyDict
        r == create_notebook_model(S, model, path)
        calls == <<Call("create_notebook_model", NoName, path, model, NoName, r.ok)>>
    IN IF r.ok THEN _finish_model(201, r.model, TRUE, calls, r.S)
       ELSE HTTPError(r.status, calls, r.S)

\* _save_notebook comparing the model's path with the path as the URL gave it.
_save_notebook_unstripped(S, model, path, name) ==
    LET r == save_notebook_model(S, model, name, path)
        calls == <<Call("save_notebook_model", name, path, model, NoName, r.ok)>>
        location == r.model.path # path \/ r.model.name # name
    IN IF r.ok THEN _finish_model(200, r.model, location, calls, r.S)
       ELSE HTTPError(r.status, calls, r.S)

_save_notebook(S, model, path, name) ==
    LET r == save_notebook_model(S, model, name, path)
        calls == <<Call("save_notebook_model", name, path, model, NoName, r.ok)>>
        location == r.model.path # Strip(path) \/ r.model.name # name
    IN IF r.ok THEN _finish_model(200, r.model, location, calls, r.S)
       ELSE HTTPError(r.status, calls, r.S)

\* post that looks at the name only after the copy parameter.
post_copy_before_name(S, path, name, copy, model) ==
    IF copy # NoCopy THEN _copy_notebook(S, copy, path, NoName)
    ELSE IF name # NoName THEN HTTPError(400, <<>>, S)
    ELSE IF Truthy(model) THEN _upload_notebook(S, model, path, NoName)
    ELSE _create_empty_notebook(S, path, NoName)

\* post that prefers the body to the copy parameter.
post_body_first(S, path, name, copy, model) ==
    IF name # NoName THEN HTTPError(400, <<>>, S)
    ELSE IF Truthy(model) THEN _upload_notebook(S, model, path, NoName)
    ELSE IF copy # NoCopy THEN _copy_notebook(S, copy, path, NoName)
    ELSE _create_empty_notebook(S, path, NoName)

post(S, path, name, copy, model) ==
    IF name # NoName THEN HTTPError(400, <<>>, S)
    ELSE IF copy # NoCopy THEN _copy_notebook(S, copy, path, NoName)
    ELSE IF Truthy(model) THEN _upload_notebook(S, model, path, NoName)
    ELSE _create_empty_notebook(S, path, NoName)

\* put that rejects copy+body with `if model`, so that {} passes.
put_falsy_body(S, path, name, copy, model) ==
    IF name = NoName THEN HTTPError(400, <<>>, S)
    ELSE IF copy # NoCopy
         THEN IF Truthy(model) THEN HTTPError(400, <<>>, S)
              ELSE _copy_notebook(S, copy, path, name)
    ELSE IF Truthy(model)
         THEN LET exists == notebook_exists(S, name, path)
                  check == <<Call("notebook_exists", name, path, NoneBody, NoName, exists)>>
                  h == IF exists THEN _save_notebook(S, model, path, name)
                       ELSE _upload_notebook(S, model, path, name)
              IN [h EXCEPT !.calls = check \o @]
    ELSE _create_empty_notebook(S, path, name)

\* put with `if model:` where the code has `elif model:`: a copy falls through
\* to the branches below it.
put_if_not_elif(S, path, name, copy, model) ==
    IF name = NoName THEN HTTPError(400, <<>>, S)
    ELSE IF copy # NoCopy /\ ~model.none THEN HTTPError(400, <<>>, S)
    ELSE IF copy # NoCopy
         THEN LET c == _copy_notebook(S, copy, path, name)
                  e == _create_empty_notebook(c.S, path, name)
              IN IF c.status = 201 THEN [e EXCEPT !.calls = c.calls \o @] ELSE c
    ELSE IF Truthy(model)
         THEN LET exists == notebook_exists(S, name, path)
                  check == <<Call("notebook_exists", name, path, NoneBody, NoName, exists)>>
                  h == IF exists THEN _save_notebook(S, model, path, name)
                       ELSE _upload_notebook(S, model, path, name)
              IN [h EXCEPT !.calls = check \o @]
    ELSE _create_empty_notebook(S, path, name)

put(S, path, name, copy, model) ==
    IF name = NoName THEN HTTPError(400, <<>>, S)
    ELSE IF copy # NoCopy
         THEN IF ~model.none THEN HTTPError(400, <<>>, S)
              ELSE _copy_notebook(S, copy, path, name)
    ELSE IF Truthy(model)
         THEN LET exists == notebook_exists(S, name, path)
                  check == <<Call("notebook_exists", name, path, NoneBody, NoName, exists)>>
                  h == IF exists THEN _save_notebook(S, model, path, name)
                       ELSE _upload_notebook(S, model, path, name)
              IN [h EXCEPT !.calls = check \o @]
    ELSE _create_empty_notebook(S, path, name)

\* delete that answers 204 without calling the store.
delete_without_store_call(S, path, name) ==
    Response(204, NoLocation, NoHeader, NoModel, NoCheckpoint, <<>>, S)

delete(S, path, name) ==
    LET r == delete_notebook_model(S, name, path)
        calls == <<Call("delete_notebook_model", name, path, NoneBody, NoName, r.ok)>>
    IN IF r.ok THEN Response(204, NoLocation, NoHeader, NoModel, NoCheckpoint, calls, r.S)
       ELSE HTTPError(r.status, calls, r.S)

\* checkpoints_get that calls create_checkpoint, as checkpoints_post does.
checkpoints_get_creates(S, path, name) ==
    LET r == create_checkpoint(S, name, path)
        calls == <<Call("create_checkpoint", name, path, NoneBody, NoName, r.ok)>>
    IN IF r.ok THEN Response(200, NoLocation, NoHeader, NoModel, r.checkpoint, calls, r.S)
       ELSE HTTPError(r.status, calls, r.S)

checkpoints_get(S, path, name) ==
    Response(200, NoLocation, NoHeader, NoModel, NoCheckpoint,
             <<Call("list_checkpoints", name, path, NoneBody, NoName, TRUE)>>, S)

\* checkpoints_post whose Location stops at .../checkpoints.
checkpoints_post_no_id(S, path, name) ==
    LET r == create_checkpoint(S, name, path)
        calls == <<Call("create_checkpoint", name, path, NoneBody, NoName, r.ok)>>
        location == url_path_join(<<<<"api">>, <<"notebooks">>, path, <<name>>,
                                    <<"checkpoints">>>>)
    IN IF r.ok THEN Response(201, location, NoHeader, NoModel, r.checkpoint, calls, r.S)
       ELSE HTTPError(r.status, calls, r.S)

checkpoints_post(S, path, name) ==
    LET r == create_checkpoint(S, name, path)
        calls == <<Call("create_checkpoint", name, path, NoneBody, NoName, r.ok)>>
        location == url_path_join(<<<<"api">>, <<"notebooks">>, path, <<name>>,
                                    <<"checkpoints">>, <<r.checkpoint.id>>>>)
    IN IF r.ok THEN Response(201, location, NoHeader, NoModel, r.checkpoint, calls, r.S)
       ELSE HTTPError(r.status, calls, r.S)

\* modify_post that calls delete_checkpoint, as modify_delete does.
modify_post_deletes(S, path, name, checkpoint_id) ==
    LET r == delete_checkpoint(S, checkpoint_id, name, path)
        calls == <<Call("delete_checkpoint", name, path, NoneBody, checkpoint_id, r.ok)>>
    IN IF r.ok THEN Response(204, NoLocation, NoHeader, NoModel, NoCheckpoint, calls, r.S)
       ELSE HTTPError(r.status, calls, r.S)

modify_post(S, path, name, checkpoint_id) ==
    LET r == restore_checkpoint(S, checkpoint_id, name, path)
        calls == <<Call("restore_checkpoint", name, path, NoneBody, checkpoint_id, r.ok)>>
    IN IF r.ok THEN Response(204, NoLocation, NoHeader, NoModel, NoCheckpoint, calls, r.S)
       ELSE HTTPError(r.status, calls, r.S)

\* modify_delete that swallows the store's exception and answers 204.
modify_delete_ignores_failure(S, path, name, checkpoint_id) ==
    LET r == delete_checkpoint(S, checkpoint_id, name, path)
        calls == <<Call("delete_checkpoint", name, path, NoneBody, checkpoint_id, r.ok)>>
    IN Response(204, NoLocation, NoHeader, NoModel, NoCheckpoint, calls, r.S)

modify_delete(S, path, name, checkpoint_id) ==
    LET r == delete_checkpoint(S, checkpoint_id, name, path)
        calls == <<Call("delete_checkpoint", name, path, NoneBody, checkpoint_id, r.ok)>>
    IN IF r.ok THEN Response(204, NoLocation, NoHeader, NoModel, NoCheckpoint, calls, r.S)
       ELSE HTTPError(r.status, calls, r.S)

\* ------------------------------------------------------------ the state machine
Request(method, resource, path, name, copy, body, id) ==
    [method |-> method, resource |-> resource, path |-> path, name |-> name,
     copy |-> copy, body |-> body, id |-> id]

\* No put between its two store calls; no sequence followed.
NoPending == [active |-> FALSE, path |-> <<>>, name |-> NoName, model |-> NoneBody,
              exists |-> FALSE]
NoTrack == [phase |-> "none", path |-> NoPath, name |-> NoName, id |-> NoId,
            content |-> NoContent, latest |-> NoContent]

\* The (path, name) that request r, answered h, deleted or brought back.
Deleted(r, h) ==
    IF r.resource = "notebook" /\ r.method = "DELETE" /\ h.status = 204
    THEN deleted \cup {<<Strip(r.path), r.name>>}
    ELSE IF /\ r.resource = "notebook"
            /\ r.method \in {"PATCH", "POST", "PUT"}
            /\ h.status \in {200, 201}
         THEN deleted \ {<<h.body.path, h.body.name>>}
         ELSE deleted

\* The handler ran to its end: its response is out and the store is as it left it.
Serve(r, h) ==
    /\ req' = r
    /\ resp' = [status |-> h.status, location |-> h.location,
                last_modified |-> h.last_modified, body |-> h.body,
                checkpoint |-> h.checkpoint, calls |-> h.calls]
    /\ notebooks' = h.S.notebooks
    /\ checkpoints' = h.S.checkpoints
    /\ now' = h.S.now
    /\ before' = Store
    /\ deleted' = Deleted(r, h)

\* A handler served alone, start to end.
Finish(r, h) ==
    /\ Serve(r, h)
    /\ UNCHANGED <<pending, tracked>>

\* The notebooks and checkpoints the server finds on the store when it starts.
Notebook(name, path, content) ==
    [name |-> name, path |-> path, content |-> content, last_modified |-> 0]

InitialStores ==
    { [notebooks |-> {}, checkpoints |-> {}],
      [notebooks |-> {Notebook("a.ipynb", <<"w">>, "c0")}, checkpoints |-> {}],
      [notebooks |-> {Notebook("a.ipynb", <<>>, "c0"), Notebook("b.ipynb", <<>>, "c2")},
       checkpoints |-> {}],
      [notebooks |-> {Notebook("a.ipynb", <<"w">>, "c0"), Notebook("b.ipynb", <<"w">>, "c2")},
       checkpoints |-> {[name |-> "a.ipynb", path |-> <<"w">>, id |-> "cp0",
                        content |-> "c1", last_modified |-> 0]}] }

Init ==
    /\ \E s \in InitialStores : notebooks = s.notebooks /\ checkpoints = s.checkpoints
    /\ now = 1
    /\ req = Request("NONE", "none", <<>>, NoName, NoCopy, NoneBody, NoId)
    /\ resp = [status |-> 0, location |-> NoLocation, last_modified |-> NoHeader,
               body |-> NoModel, checkpoint |-> NoCheckpoint, calls |-> <<>>]
    /\ before = [notebooks |-> notebooks, checkpoints |-> checkpoints, now |-> now]
    /\ deleted = {}
    /\ pending = NoPending
    /\ tracked = NoTrack

Get ==
    \E path \in ReqPaths, name \in ReqNames \cup ServerNames :
        Finish(Request("GET", "notebook", path, name, NoCopy, NoneBody, NoId),
               get(Store, path, name))

Patch ==
    \E path \in ReqPaths, name \in ReqNames, model \in Bodies :
        /\ now < MaxClock
        /\ Finish(Request("PATCH", "notebook", path, name, NoCopy, model, NoId),
                  patch(Store, path, name, model))

Post ==
    \E path \in ReqPaths, name \in ReqNames, copy \in Copies, model \in Bodies :
        /\ now < MaxClock
        /\ FreeNames(Store, path) # {}
        /\ Finish(Request("POST", "notebook", path, name, copy, model, NoId),
                  post(Store, path, name, copy, model))

Put ==
    \E path \in ReqPaths, name \in ReqNames, copy \in Copies, model \in Bodies :
        /\ now < MaxClock
        /\ Finish(Request("PUT", "notebook", path, name, copy, model, NoId),
                  put(Store, path, name, copy, model))

Delete ==
    \E path \in ReqPaths, name \in ReqNames :
        /\ now < MaxClock
        /\ Finish(Request("DELETE", "notebook", path, name, NoCopy, NoneBody, NoId),
                  delete(Store, path, name))

CheckpointsGet ==
    \E path \in ReqPaths, name \in Names :
        Finish(Request("GET", "checkpoints", path, name, NoCopy, NoneBody, NoId),
               checkpoints_get(Store, path, name))

CheckpointsPost ==
    \E path \in ReqPaths, name \in Names :
        /\ now < MaxClock
        /\ FreeIds(Store, name, path) # {}
        /\ Finish(Request("POST", "checkpoints", path, name, NoCopy, NoneBody, NoId),
                  checkpoints_post(Store, path, name))

ModifyPost ==
    \E path \in ReqPaths, name \in Names, checkpoint_id \in ReqIds :
        /\ now < MaxClock
        /\ Finish(Request("POST", "checkpoint", path, name, NoCopy, NoneBody, checkpoint_id),
                  modify_post(Store, path, name, checkpoint_id))

ModifyDelete ==
    \E path \in ReqPaths, name \in Names, checkpoint_id \in ReqIds :
        /\ now < MaxClock
        /\ Finish(Request("DELETE", "checkpoint", path, name, NoCopy, NoneBody, checkpoint_id),
                  modify_delete(Store, path, name, checkpoint_id))

Next ==
    \/ Get
    \/ Patch
    \/ Post
    \/ Put
    \/ Delete
    \/ CheckpointsGet
    \/ CheckpointsPost
    \/ ModifyPost
    \/ ModifyDelete

Spec == Init /\ [][Next]_vars

\* ------------------------------------- a checkpoint, saves, a restore, a fetch
\* Number of timestamps the clock hands out in SpecCheckpoint.
MaxSteps == 4

\* Request (path, name) is the notebook the sequence follows.
IsTracked(path, name) == Strip(path) = tracked.path /\ name = tracked.name

\* CreateCheckpoint: the sequence starts, with the content the notebook has now.
TakeCheckpoint ==
    \E path \in ReqPaths, name \in Names :
        LET h == checkpoints_post(Store, path, name) IN
        /\ now < MaxSteps
        /\ FreeIds(Store, name, path) # {}
        /\ Serve(Request("POST", "checkpoints", path, name, NoCopy, NoneBody, NoId), h)
        /\ tracked' = IF h.status = 201
                      THEN [phase |-> "checkpointed", path |-> Strip(path), name |-> name,
                            id |-> h.checkpoint.id,
                            content |-> (CHOOSE d \in Find(Store, name, path) : TRUE).content,
                            latest |-> NoContent]
                      ELSE NoTrack
        /\ pending' = pending

\* A PUT with a body: a save of the followed notebook continues the sequence,
\* which follows the notebook to where the save left it.
SaveTracked ==
    \E path \in ReqPaths, name \in Names, model \in {b \in Bodies : Truthy(b)} :
        LET h == put(Store, path, name, NoCopy, model) IN
        /\ now < MaxSteps
        /\ Serve(Request("PUT", "notebook", path, name, NoCopy, model, NoId), h)
        /\ tracked' = IF /\ tracked.phase = "checkpointed"
                         /\ IsTracked(path, name)
                         /\ h.status = 200
                      THEN [tracked EXCEPT !.path = h.body.path, !.name = h.body.name,
                                           !.latest = h.body.content]
                      ELSE NoTrack
        /\ pending' = pending

\* RestoreCheckpoint of the followed notebook with the id the checkpoint got.
RestoreTracked ==
    \E path \in ReqPaths, name \in Names, checkpoint_id \in ReqIds :
        LET h == modify_post(Store, path, name, checkpoint_id) IN
        /\ now < MaxSteps
        /\ Serve(Request("POST", "checkpoint", path, name, NoCopy, NoneBody, checkpoint_id), h)
        /\ tracked' = IF /\ tracked.phase = "checkpointed"
                         /\ IsTracked(path, name)
                         /\ checkpoint_id = tracked.id
                      THEN [tracked EXCEPT !.phase = "restored"]
                      ELSE NoTrack
        /\ pending' = pending

\* GetDocument of the followed notebook after the restore.
FetchTracked ==
    \E path \in ReqPaths, name \in Names :
        LET h == get(Store, path, name) IN
        /\ Serve(Request("GET", "notebook", path, name, NoCopy, NoneBody, NoId), h)
        /\ tracked' = IF tracked.phase \in {"restored", "fetched"} /\ IsTracked(path, name)
                      THEN [tracked EXCEPT !.phase = "fetched"]
                      ELSE NoTrack
        /\ pending' = pending

NextCheckpoint ==
    \/ TakeCheckpoint
    \/ SaveTracked
    \/ RestoreTracked
    \/ FetchTracked

SpecCheckpoint == Init /\ [][NextCheckpoint]_vars

\* --------------------------------------------- requests served side by side
\* Number of timestamps the clock hands out in SpecConcurrent.
MaxRace == 3

\* put from its existence check on: the branch the check chose, then the call.
put_act(S, p) ==
    LET check == <<Call("notebook_exists", p.name, p.path, NoneBody, NoName, p.exists)>>
        h == IF p.exists THEN _save_notebook(S, p.model, p.path, p.name)
             ELSE _upload_notebook(S, p.model, p.path, p.name)
    IN [h EXCEPT !.calls = check \o @]

\* A put with a name, no copy and a non-empty body makes its existence check.
PutCheck ==
    \E path \in ReqPaths, name \in Names, model \in {b \in Bodies : Truthy(b)} :
        /\ ~pending.active
        /\ pending' = [active |-> TRUE, path |-> path, name |-> name, model |-> model,
                       exists |-> notebook_exists(Store, name, path)]
        /\ UNCHANGED <<notebooks, checkpoints, now, req, resp, before, deleted, tracked>>

\* That put makes its store call and finishes.
PutAct ==
    /\ pending.active
    /\ now < MaxRace
    /\ Serve(Request("PUT", "notebook", pending.path, pending.name, NoCopy,
                     pending.model, NoId),
             put_act(Store, pending))
    /\ pending' = NoPending
    /\ tracked' = tracked

\* Another put, served start to end meanwhile.
OtherPut ==
    \E path \in ReqPaths, name \in Names, model \in Bodies :
        /\ now < MaxRace
        /\ Serve(Request("PUT", "notebook", path, name, NoCopy, model, NoId),
                 put(Store, path, name, NoCopy, model))
        /\ UNCHANGED <<pending, tracked>>

\* A delete, served start to end meanwhile.
OtherDelete ==
    \E path \in ReqPaths, name \in Names :
        /\ now < MaxRace
        /\ Serve(Request("DELETE", "notebook", path, name, NoCopy, NoneBody, NoId),
                 delete(Store, path, name))
        /\ UNCHANGED <<pending, tracked>>

NextConcurrent ==
    \/ PutCheck
    \/ PutAct
    \/ OtherPut
    \/ OtherDelete

SpecConcurrent == Init /\ [][NextConcurrent]_vars

\* --------------------------------------------------------------- the claims
IsRequest(method, resource) == req.method = method /\ req.resource = resource

\* The names of the notebook manager methods the handler called, in order.
Called == [i \in 1..Len(resp.calls) |-> resp.calls[i].op]

Success == resp.status \in {200, 201, 204}

\* An error response: no success status, no Location header.
StoreFailed == ~Success /\ resp.location = NoLocation

\* The Location of notebook (path, name), path without its outer slashes.
LocationOf(path, name) == <<"api", "notebooks">> \o path \o <<name>>

StoreUnchanged ==
    /\ notebooks = before.notebooks
    /\ checkpoints = before.checkpoints

\* PUT /api/notebooks/path/name with a non-empty body and no ?copy=.
PutWithBody ==
    /\ IsRequest("PUT", "notebook")
    /\ req.name # NoName
    /\ req.copy = NoCopy
    /\ Truthy(req.body)

\* (path, name) was on the store when the handler ran.
Existed == notebook_exists(before, req.name, req.path)

\* The model the store returned is not at the requested (path, name).
ReturnedDiffers == resp.body.path # Strip(req.path) \/ resp.body.name # req.name

\* C1 as stated: a PUT with a name, no copy and a non-empty body calls create
\* and answers 201 with Location when (path,name) did not exist; it calls save and
\* answers 200 when it existed, with Location iff the returned model is elsewhere.
C1_Original ==
    PutWithBody =>
        /\ ~Existed =>
            /\ Called = <<"notebook_exists", "create_notebook_model">>
            /\ resp.status = 201
            /\ resp.location # NoLocation
        /\ Existed =>
            /\ Called = <<"notebook_exists", "save_notebook_model">>
            /\ resp.status = 200
            /\ resp.location # NoLocation <=> ReturnedDiffers

\* C1 amended: the same branch on existence, and the 201 / 200 responses whenever
\* the store call succeeds; a store call that fails is answered with the store's
\* error status and no Location.
C1_PutCreatesOrSaves ==
    PutWithBody =>
        /\ ~Existed =>
            /\ Called = <<"notebook_exists", "create_notebook_model">>
            /\ IF resp.calls[2].ok
               THEN /\ resp.status = 201
                    /\ resp.location = LocationOf(resp.body.path, resp.body.name)
                    /\ resp.body \in notebooks
               ELSE StoreFailed
        /\ Existed =>
            /\ Called = <<"notebook_exists", "save_notebook_model">>
            /\ IF resp.calls[2].ok
               THEN /\ resp.status = 200
                    /\ resp.body \in notebooks
                    /\ resp.location # NoLocation <=> ReturnedDiffers
                    /\ resp.location # NoLocation =>
                          resp.location = LocationOf(resp.body.path, resp.body.name)
               ELSE StoreFailed

\* A save of an existing notebook under a sub-directory URL that renamed nothing.
C1_Witness ==
    /\ PutWithBody
    /\ Existed
    /\ req.path # <<>>
    /\ resp.status = 200
    /\ resp.location = NoLocation

\* C2: a POST with a name in the URL is answered 400 whatever the body and the
\* copy parameter are, and the store is neither called nor changed.
C2_PostWithNameIs400 ==
    (IsRequest("POST", "notebook") /\ req.name # NoName) =>
        /\ resp.status = 400
        /\ resp.calls = <<>>
        /\ StoreUnchanged

\* A named POST whose copy source exists and whose body is non-empty.
C2_Witness ==
    /\ IsRequest("POST", "notebook")
    /\ req.name # NoName
    /\ req.copy # NoCopy
    /\ notebook_exists(before, req.copy, req.path)
    /\ Truthy(req.body)
    /\ resp.status = 400

\* C3: a PUT with a name, a non-empty copy parameter and a body that is not None
\* (an empty JSON object included) is answered 400 and copies nothing.
C3_PutCopyWithBodyIs400 ==
    (/\ IsRequest("PUT", "notebook")
     /\ req.name # NoName
     /\ req.copy # NoCopy
     /\ ~req.body.none) =>
        /\ resp.status = 400
        /\ resp.calls = <<>>
        /\ StoreUnchanged

\* A PUT ?copy= of an existing notebook with the body {}.
C3_Witness ==
    /\ IsRequest("PUT", "notebook")
    /\ req.name # NoName
    /\ req.copy # NoCopy
    /\ notebook_exists(before, req.copy, req.path)
    /\ req.body = EmptyDict
    /\ resp.status = 400

\* C4: a PATCH without a name or with a None body is answered 400 and never
\* reaches update_notebook_model; a PATCH with a name and any body that is not
\* None calls update_notebook_model with that body, name and path.
C4_PatchNeedsNameAndBody ==
    IsRequest("PATCH", "notebook") =>
        /\ (req.name = NoName \/ req.body.none) =>
            /\ resp.status = 400
            /\ resp.calls = <<>>
            /\ StoreUnchanged
        /\ (req.name # NoName /\ ~req.body.none) =>
            /\ Called = <<"update_notebook_model">>
            /\ resp.calls[1].name = req.name
            /\ resp.calls[1].path = req.path
            /\ resp.calls[1].model = req.body

\* A PATCH of an existing notebook with the body {} that the store served.
C4_Witness ==
    /\ IsRequest("PATCH", "notebook")
    /\ req.name # NoName
    /\ req.body = EmptyDict
    /\ Called = <<"update_notebook_model">>
    /\ resp.calls[1].ok

\* C5: a successful PATCH is answered 200 with the Location of the model the
\* store returned, which is where the notebook now is, not with the URL's.
C5_PatchLocationFromModel ==
    (IsRequest("PATCH", "notebook") /\ Success) =>
        /\ resp.status = 200
        /\ resp.body \in notebooks
        /\ resp.location = LocationOf(resp.body.path, resp.body.name)
        /\ ~notebook_exists(Store, req.name, req.path) =>
              resp.location # LocationOf(Strip(req.path), req.name)

\* A PATCH that moved the notebook away from the URL it was sent to.
C5_Witness ==
    /\ IsRequest("PATCH", "notebook")
    /\ resp.status = 200
    /\ Existed
    /\ ~notebook_exists(Store, req.name, req.path)
    /\ resp.location # LocationOf(Strip(req.path), req.name)

\* C6: a DELETE without a name is answered 400 and never reaches
\* delete_notebook_model.
C6_DeleteRequiresName ==
    (IsRequest("DELETE", "notebook") /\ req.name = NoName) =>
        /\ resp.status = 400
        /\ \A i \in 1..Len(resp.calls) : resp.calls[i].op # "delete_notebook_model"

\* PATCH, POST, PUT and DELETE on the notebook resource.
MutatingDocument ==
    /\ req.resource = "notebook"
    /\ req.method \in {"PATCH", "POST", "PUT", "DELETE"}

\* C7 as stated: every 2xx response to a mutating notebook request, DELETE
\* included, has a Last-Modified header.
C7_Original ==
    (MutatingDocument /\ Success) => resp.last_modified # NoHeader

\* C7 amended: every 2xx response to a rename, copy, upload, create-empty or save
\* has the Last-Modified of the model the store returned; the 204 of a DELETE has
\* no Last-Modified header.
C7_LastModifiedButDelete ==
    (MutatingDocument /\ Success) =>
        IF req.method = "DELETE"
        THEN resp.last_modified = NoHeader
        ELSE /\ resp.last_modified # NoHeader
             /\ resp.body \in notebooks
             /\ resp.last_modified = resp.body.last_modified

\* A save that set no Location and still has its Last-Modified.
C7_Witness ==
    /\ PutWithBody
    /\ Existed
    /\ resp.status = 200
    /\ resp.location = NoLocation
    /\ resp.last_modified = before.now

\* POST /api/notebooks/path/name/checkpoints
CreateCheckpoint == IsRequest("POST", "checkpoints")

CheckpointLocation ==
    <<"api", "notebooks">> \o Strip(req.path) \o
        <<req.name, "checkpoints", resp.checkpoint.id>>

\* C8 as stated: a successful CreateCheckpoint is answered 201 with the Location
\* of the new checkpoint and Last-Modified equal to the checkpoint's timestamp.
C8_Original ==
    (CreateCheckpoint /\ Success) =>
        /\ resp.status = 201
        /\ resp.location = CheckpointLocation
        /\ resp.last_modified = resp.checkpoint.last_modified

\* C8 amended: a successful CreateCheckpoint is answered 201 with the Location
\* built from the request path, name and the id of the checkpoint the store
\* returned; no Last-Modified header is set, the timestamp is in the body only.
C8_CheckpointCreated ==
    (CreateCheckpoint /\ Success) =>
        /\ resp.status = 201
        /\ resp.location = CheckpointLocation
        /\ resp.last_modified = NoHeader
        /\ \E c \in checkpoints \ before.checkpoints :
              /\ c.name = req.name
              /\ c.path = Strip(req.path)
              /\ c.id = resp.checkpoint.id
              /\ c.last_modified = resp.checkpoint.last_modified

\* A checkpoint created for a notebook in a sub-directory.
C8_Witness ==
    /\ CreateCheckpoint
    /\ resp.status = 201
    /\ req.path # <<>>
    /\ resp.checkpoint.id # NoId

\* POST /api/notebooks/path, no name in the URL.
PostToDirectory == IsRequest("POST", "notebook") /\ req.name = NoName

\* C9: a POST without a name makes exactly one store call: copy_notebook with no
\* destination name if ?copy= is non-empty, whatever the body; else
\* create_notebook_model with the body as it came if the body is non-empty; else
\* create_notebook_model with {}. A success is 201 with Location and Last-Modified.
C9_PostPriority ==
    PostToDirectory =>
        /\ Len(resp.calls) = 1
        /\ resp.calls[1].path = req.path
        /\ IF req.copy # NoCopy
           THEN /\ resp.calls[1].op = "copy_notebook"
                /\ resp.calls[1].name = req.copy
                /\ resp.calls[1].aux = NoName
           ELSE /\ resp.calls[1].op = "create_notebook_model"
                /\ resp.calls[1].model = IF Truthy(req.body) THEN req.body ELSE EmptyDict
        /\ resp.calls[1].ok =>
            /\ resp.status = 201
            /\ resp.body \in notebooks
            /\ resp.location = LocationOf(resp.body.path, resp.body.name)
            /\ resp.last_modified = resp.body.last_modified
        /\ ~resp.calls[1].ok => StoreFailed

\* A POST with both ?copy= and a non-empty body that copied.
C9_Witness ==
    /\ PostToDirectory
    /\ req.copy # NoCopy
    /\ Truthy(req.body)
    /\ resp.status = 201
    /\ resp.calls[1].op = "copy_notebook"

\* C10 as stated: no GET on the notebook resource sets Location; without a name
\* it lists and answers 200 with neither header; with a name it calls
\* get_notebook_model and answers 200 with the model's Last-Modified.
C10_Original ==
    IsRequest("GET", "notebook") =>
        /\ resp.location = NoLocation
        /\ req.name = NoName =>
            /\ Called = <<"list_notebooks">>
            /\ resp.status = 200
            /\ resp.last_modified = NoHeader
        /\ req.name # NoName =>
            /\ Called = <<"get_notebook_model">>
            /\ resp.status = 200
            /\ resp.body \in notebooks
            /\ resp.last_modified = resp.body.last_modified

\* C10 amended: as stated when (path,name) is on the store; when it is not,
\* get_notebook_model fails and the answer is 404 with neither header.
C10_GetHasNoLocation ==
    IsRequest("GET", "notebook") =>
        /\ resp.location = NoLocation
        /\ StoreUnchanged
        /\ req.name = NoName =>
            /\ Called = <<"list_notebooks">>
            /\ resp.status = 200
            /\ resp.last_modified = NoHeader
        /\ req.name # NoName =>
            /\ Called = <<"get_notebook_model">>
            /\ IF Existed
               THEN /\ resp.status = 200
                    /\ resp.body \in notebooks
                    /\ resp.body.name = req.name
                    /\ resp.body.path = Strip(req.path)
                    /\ resp.last_modified = resp.body.last_modified
               ELSE /\ resp.status = 404
                    /\ resp.last_modified = NoHeader

\* A GET of an existing notebook.
C10_Witness ==
    /\ IsRequest("GET", "notebook")
    /\ req.name # NoName
    /\ resp.status = 200
    /\ resp.last_modified # NoHeader
    /\ resp.location = NoLocation

\* PUT /api/notebooks/path/name?copy=src without a body, src being in path.
PutCopy ==
    /\ IsRequest("PUT", "notebook")
    /\ req.name # NoName
    /\ req.copy # NoCopy
    /\ req.body.none
    /\ notebook_exists(before, req.copy, req.path)

\* C15: a PUT ?copy=src without a body, src existing in path, calls copy_notebook
\* with src, the URL's name and the one request path, answers 201 with Location
\* and Last-Modified of the new model, and leaves (path, name) with the content
\* src had.
C15_PutCopiesInPlace ==
    PutCopy =>
        /\ Called = <<"copy_notebook">>
        /\ resp.calls[1].name = req.copy
        /\ resp.calls[1].aux = req.name
        /\ resp.calls[1].path = req.path
        /\ resp.status = 201
        /\ resp.body \in notebooks
        /\ resp.location = LocationOf(Strip(req.path), req.name)
        /\ resp.last_modified = resp.body.last_modified
        /\ \E d \in notebooks :
              /\ d.name = req.name
              /\ d.path = Strip(req.path)
              /\ \A s \in Find(before, req.copy, req.path) :
                    s.path = d.path /\ s.content = d.content

\* A copy to another name in a sub-directory.
C15_Witness ==
    /\ PutCopy
    /\ req.name # req.copy
    /\ req.path # <<>>
    /\ resp.status = 201

\* The notebook manager methods that change the store.
MutatingOps ==
    {"create_notebook_model", "save_notebook_model", "copy_notebook",
     "update_notebook_model", "delete_notebook_model", "create_checkpoint",
     "restore_checkpoint", "delete_checkpoint"}

\* C16: a request makes at most one mutating store call, and a request answered
\* 400 by the handler makes none and leaves the store as it was.
C16_AtMostOneMutation ==
    /\ Cardinality({i \in 1..Len(resp.calls) : resp.calls[i].op \in MutatingOps}) <= 1
    /\ resp.status = 400 =>
        /\ resp.calls = <<>>
        /\ StoreUnchanged
        /\ now = before.now

\* A PUT that made two store calls, the existence check and one mutating call.
C16_Witness ==
    /\ PutWithBody
    /\ Len(resp.calls) = 2
    /\ resp.calls[2].op \in MutatingOps
    /\ notebooks # before.notebooks

\* The i-th store call of the request raised.
StoreCallFailed(i) == resp.calls[i].op # "notebook_exists" /\ ~resp.calls[i].ok

\* C17: a store call that fails is the request's last store call, the store is
\* as it was, and the response has the store's error status, never 200, 201, 204.
C17_FailureIsSurfaced ==
    \A i \in 1..Len(resp.calls) :
        StoreCallFailed(i) =>
            /\ i = Len(resp.calls)
            /\ resp.status \in {404, StoreFailure}
            /\ ~Success
            /\ StoreUnchanged

\* A DeleteCheckpoint of an unknown checkpoint id.
C17_Witness ==
    /\ IsRequest("DELETE", "checkpoint")
    /\ Len(resp.calls) = 1
    /\ StoreCallFailed(1)
    /\ resp.status = 404

\* PUT /api/notebooks/path/name with no ?copy= and a body that is None or {}.
PutEmpty ==
    /\ IsRequest("PUT", "notebook")
    /\ req.name # NoName
    /\ req.copy = NoCopy
    /\ ~Truthy(req.body)

\* C18: a PUT with a name, no copy and no body calls create_notebook_model with
\* the model {name}, without the existence check, and answers 201 with Location
\* whether or not (path,name) was there: an existing notebook is replaced.
C18_PutEmptyCreates ==
    PutEmpty =>
        /\ Called = <<"create_notebook_model">>
        /\ resp.calls[1].model = [EmptyDict EXCEPT !.name = req.name]
        /\ resp.calls[1].path = req.path
        /\ resp.status = 201
        /\ resp.location = LocationOf(Strip(req.path), req.name)
        /\ \E d \in notebooks :
              /\ d.name = req.name
              /\ d.path = Strip(req.path)
              /\ d.content = EmptyContent
              /\ d.last_modified = before.now

\* An existing notebook with content replaced by an empty one.
C18_Witness ==
    /\ PutEmpty
    /\ Existed
    /\ resp.status = 201
    /\ \E old \in Find(before, req.name, req.path) : old.content # EmptyContent

\* C19: on PUT's upload branch the model given to create_notebook_model has the
\* URL's name whatever name the body had; on a POST upload it is the body as it
\* came.
C19_UploadName ==
    /\ (PutWithBody /\ ~Existed) =>
        /\ Called = <<"notebook_exists", "create_notebook_model">>
        /\ resp.calls[2].model = [req.body EXCEPT !.name = req.name]
    /\ (PostToDirectory /\ req.copy = NoCopy /\ Truthy(req.body)) =>
        /\ Called = <<"create_notebook_model">>
        /\ resp.calls[1].model = req.body

\* A PUT upload whose body names another notebook.
C19_Witness ==
    /\ PutWithBody
    /\ ~Existed
    /\ req.body.name # NoName
    /\ req.body.name # req.name
    /\ resp.status = 201

\* The notebook manager methods that only read.
ReadOps == {"list_notebooks", "get_notebook_model", "list_checkpoints"}

\* C20: a GET, on the notebook resource or on the checkpoints resource, makes
\* only reading store calls and leaves notebooks, contents and checkpoints as
\* they were.
C20_ReadsChangeNothing ==
    req.method = "GET" =>
        /\ \A i \in 1..Len(resp.calls) : resp.calls[i].op \in ReadOps
        /\ StoreUnchanged
        /\ now = before.now

\* A list of the checkpoints of a notebook that has one.
C20_Witness ==
    /\ IsRequest("GET", "checkpoints")
    /\ CheckpointsOf(Store, req.name, req.path) # {}
    /\ resp.status = 200

\* C12: once a DELETE of (path,name) was answered 204, and until a request
\* brings (path,name) back, a GET of (path,name) is answered 404.
C12_GetAfterDeleteIs404 ==
    (/\ IsRequest("GET", "notebook")
     /\ req.name # NoName
     /\ <<Strip(req.path), req.name>> \in deleted) =>
        /\ resp.status = 404
        /\ resp.body = NoModel

\* A GET of a notebook that was there at the start and has been deleted.
C12_Witness ==
    /\ IsRequest("GET", "notebook")
    /\ <<Strip(req.path), req.name>> \in deleted
    /\ resp.status = 404

\* The last response reported a notebook that create-empty, upload, a PUT
\* without copy or a save wrote.
Written ==
    /\ req.resource = "notebook"
    /\ req.method \in {"POST", "PUT"}
    /\ req.copy = NoCopy
    /\ resp.status \in {200, 201}

\* C14: the GET that follows a successful create-empty, upload, PUT without copy
\* or save, sent to the (path, name) of the model in that response, is answered
\* 200 with a model of that name and path.
C14_GetAfterWrite ==
    [][(/\ Written
        /\ req'.method = "GET"
        /\ req'.resource = "notebook"
        /\ req'.name = resp.body.name
        /\ Strip(req'.path) = resp.body.path) =>
            /\ resp'.status = 200
            /\ resp'.body.name = resp.body.name
            /\ resp'.body.path = resp.body.path]_vars

\* A GET that found a notebook under the name the server chose for it.
C14_Witness ==
    /\ IsRequest("GET", "notebook")
    /\ req.name \in ServerNames
    /\ req.path # <<>>
    /\ resp.status = 200
    /\ resp.body.name = req.name

\* C11: the store call of a PUT with a body matches the store at the time of the
\* call: create_notebook_model is called only while (path,name) is not there,
\* save_notebook_model only while it is; no 201 overwrites a notebook that
\* another request created after the existence check.
C11_CheckMatchesCall ==
    PutWithBody =>
        /\ Len(resp.calls) = 2
        /\ resp.calls[2].op = "create_notebook_model" => ~Existed
        /\ resp.calls[2].op = "save_notebook_model" => Existed

\* C13: after CreateCheckpoint and any number of saves of the notebook, the
\* RestoreCheckpoint with the id returned is answered 204, and the GET after it
\* returns the content the notebook had when the checkpoint was created.
C13_RestoreGivesCheckpointed ==
    /\ tracked.phase = "restored" =>
        /\ IsRequest("POST", "checkpoint")
        /\ resp.status = 204
    /\ tracked.phase = "fetched" =>
        /\ IsRequest("GET", "notebook")
        /\ resp.status = 200
        /\ resp.body.content = tracked.content

\* A fetch after a restore that undid a save of other content.
C13_Witness ==
    /\ tracked.phase = "fetched"
    /\ tracked.latest # NoContent
    /\ tracked.latest # tracked.content
    /\ resp.status = 200

====
